---- MODULE Spec2Model ----
(***************************************************************************)
(* The progressive translation pipeline of the Translate tab               *)
(* (src/components/TranslateTab.tsx, handleSearch) with the three fetchers *)
(* of src/services/geminiService.ts.                                       *)
(*                                                                         *)
(* Every call of handleSearch that passes the empty-input test is one      *)
(* entry of `calls`: the closure of that call (currentTerm, basic,         *)
(* details) and the await it is suspended at.  The event loop runs one     *)
(* continuation at a time, so every action below is one run of the code    *)
(* between two awaits.                                                     *)
(*                                                                         *)
(* The vocabulary and the folders of App (src/unnamed/part_002) with the   *)
(* handlers of the Translate and Vocabulary tabs, and the quiz of QuizTab  *)
(* (src/unnamed/part_000), follow in sections of their own, each with its  *)
(* specification.                                                          *)
(***************************************************************************)
EXTENDS Integers, Sequences, FiniteSets, TLC

VARIABLES input, status, result, currentSearchRef, calls, last

\* one call of a fetcher of geminiService.ts looked at on its own (fetcher) and
\* the requests it has sent to the remote services (requests)
VARIABLES fetcher, requests

serviceVars == <<fetcher, requests>>

\* the state of App (src/unnamed/part_002): the saved cards and the folders,
\* the folder selected in the Translate tab for new cards, the clock that
\* Date.now() reads, and the FileReader of the Vocabulary tab that is reading
\* a backup file (with the values the closure of its onload holds)
VARIABLES vocabulary, folders, targetFolderId, now, reader

\* the handler of the tabs that ran last, with the id it was given and the
\* ids of the cards it found for it (kept for the properties only)
VARIABLES lastOp

vocabVars == <<vocabulary, folders, targetFolderId, now, reader, lastOp>>

\* the state of QuizTab (src/unnamed/part_000); timer is the callback that
\* handleAnswer hands to setTimeout, with the values its closure holds
VARIABLES step, selectedFolderIds, currentQuestion, questionCount, feedback,
          usedCardIds, timer

quizVars == <<step, selectedFolderIds, currentQuestion, questionCount, feedback,
              usedCardIds, timer>>

appVars == <<vocabVars, quizVars>>

vars == <<input, status, result, currentSearchRef, calls, last, fetcher, requests,
          vocabVars, quizVars>>

----------------------------------------------------------------------------
(* Bounds of the model *)

\* number of accepted submissions (calls of handleSearch that start a pipeline)
MaxSubmits == 3

\* number of calls of handleSearch suspended at an await at the same time
MaxPending == 2

----------------------------------------------------------------------------
(* Values *)

\* an optional value: absent (null / not yet assigned) or present
Null == <<>>
Some(v) == <<v>>
Get(o) == o[1]

LoadingState == {"IDLE", "LOADING", "PARTIAL_SUCCESS", "SUCCESS", "ERROR"}

\* a text is a sequence of characters; " " is the white space trim() removes
Space == " "

RECURSIVE TrimStart(_)
TrimStart(s) == IF s # <<>> /\ Head(s) = Space THEN TrimStart(Tail(s)) ELSE s

RECURSIVE TrimEnd(_)
TrimEnd(s) ==
    IF s # <<>> /\ s[Len(s)] = Space THEN TrimEnd(SubSeq(s, 1, Len(s) - 1)) ELSE s

\* mutant of Trim: the input is tested and used as typed
TrimNothing(s) == s

\* String.prototype.trim
Trim(s) == TrimEnd(TrimStart(s))

\* what the user can type into the text field (it starts empty)
Inputs == { <<" ">>, <<" ", "a", " ">>, <<"b">> }

\* what quickTranslate can resolve with
BasicResults ==
    { [translatedText |-> "T1", transliteration |-> "r1"],
      [translatedText |-> "T2", transliteration |-> ""] }

\* a segment as analyzeText returns it (no synonyms field)
Seg(th) == [thai |-> th, transliteration |-> "tr", english |-> "en",
            partOfSpeech |-> "pos"]

\* what analyzeText can resolve with
DetailResults ==
    { [segments |-> <<>>, exampleSentenceThai |-> "", exampleSentenceEnglish |-> ""],
      [segments |-> <<Seg("k"), Seg("m"), Seg("k")>>, exampleSentenceThai |-> "xt",
       exampleSentenceEnglish |-> "xe"] }

\* what the synonym request can answer (the parsed synonymData)
SynonymData ==
    { <<>>, <<[word |-> "k", synonyms |-> <<"s1", "s2">>]>> }

----------------------------------------------------------------------------
(* getSynonymsForSegments: the merge of the answer into the segments *)

\* synonymData.find(d => d.word === segment.thai): the first entry, if any
RECURSIVE FindWord(_, _)
FindWord(data, th) ==
    IF data = <<>> THEN Null
    ELSE IF Head(data).word = th THEN Some(Head(data))
    ELSE FindWord(Tail(data), th)

\* mutant of WithSynonyms: a segment without a match is returned as it came
WithSynonymsOnlyMatched(segment, data) ==
    LET match == FindWord(data, segment.thai)
    IN  IF match = Null THEN segment
        ELSE [f \in DOMAIN segment \cup {"synonyms"} |->
                IF f = "synonyms" THEN Get(match).synonyms ELSE segment[f]]

\* { ...segment, synonyms: match ? match.synonyms : [] }
WithSynonyms(segment, data) ==
    LET match == FindWord(data, segment.thai)
    IN  [f \in DOMAIN segment \cup {"synonyms"} |->
            IF f = "synonyms"
            THEN (IF match # Null THEN Get(match).synonyms ELSE <<>>)
            ELSE segment[f]]

\* mutant of MergeSynonyms: the answer is matched by position, not by text
MergeSynonymsByPosition(segments, data) ==
    [k \in 1..Len(segments) |->
        [f \in DOMAIN segments[k] \cup {"synonyms"} |->
            IF f = "synonyms"
            THEN (IF k <= Len(data) THEN data[k].synonyms ELSE <<>>)
            ELSE segments[k][f]]]

\* segments.map(segment => ...)
MergeSynonyms(segments, data) ==
    [k \in 1..Len(segments) |-> WithSynonyms(segments[k], data)]

----------------------------------------------------------------------------
(* The state *)

\* one call of handleSearch: the await it is suspended at (pc), the variables
\* of its closure that the rest of the function still reads (currentTerm,
\* basic) and the arguments of the fetcher call it is waiting for
NewCall(term) ==
    [currentTerm |-> term, pc |-> "quickTranslate", basic |-> Null,
     analyzeArgs |-> Null, synonymArgs |-> Null]

TypeOK ==
    /\ input \in Inputs \cup {<<>>}
    /\ status \in LoadingState
    /\ currentSearchRef \in {Trim(v) : v \in Inputs \cup {<<>>}}
    /\ Len(calls) <= MaxSubmits
    /\ \A i \in 1..Len(calls) :
          /\ calls[i].pc \in {"quickTranslate", "analyzeText", "getSynonyms", "done"}
          /\ calls[i].currentTerm # <<>>
          /\ calls[i].basic # Null <=> calls[i].pc = "analyzeText"
          /\ calls[i].analyzeArgs # Null <=> calls[i].pc = "analyzeText"
          /\ calls[i].synonymArgs # Null <=> calls[i].pc = "getSynonyms"

\* no fetcher has been called on its own yet
NoCall == [fn |-> "none", pc |-> "done"]

Init ==
    /\ input = <<>>
    /\ status = "IDLE"
    /\ result = Null
    /\ currentSearchRef = <<>>
    /\ calls = <<>>
    /\ last = "init"
    /\ fetcher = NoCall
    /\ requests = <<>>
    /\ vocabulary = <<>>
    /\ folders = <<>>
    /\ targetFolderId = ""
    /\ now = 0
    /\ reader = Null
    /\ lastOp = [op |-> "init", id |-> "", cards |-> {}]
    /\ step = "SETUP"
    /\ selectedFolderIds = {}
    /\ currentQuestion = Null
    /\ questionCount = 0
    /\ feedback = Null
    /\ usedCardIds = {}
    /\ timer = Null

\* mutant of InitialResult: translation and transliteration change places
InitialResultSwapped(term, basic) ==
    [originalText |-> term,
     translatedText |-> basic.transliteration,
     transliteration |-> basic.translatedText,
     segments |-> <<>>,
     exampleSentenceThai |-> "",
     exampleSentenceEnglish |-> ""]

\* the initialResult of handleSearch
InitialResult(term, basic) ==
    [originalText |-> term,
     translatedText |-> basic.translatedText,
     transliteration |-> basic.transliteration,
     segments |-> <<>>,
     exampleSentenceThai |-> "",
     exampleSentenceEnglish |-> ""]

\* mutant of IntermediateResult: the example sentences are not copied
IntermediateResultNoExamples(initial, details) ==
    [initial EXCEPT !.segments = details.segments]

\* the intermediateResult of handleSearch
IntermediateResult(initial, details) ==
    [initial EXCEPT !.segments = details.segments,
                    !.exampleSentenceThai = details.exampleSentenceThai,
                    !.exampleSentenceEnglish = details.exampleSentenceEnglish]

\* mutant of PatchSegments: the segments are published even when there is no
\* result to patch
PatchSegmentsFromNothing(prev, segs) ==
    IF prev # Null
    THEN Some([Get(prev) EXCEPT !.segments = segs])
    ELSE Some([originalText |-> <<>>, translatedText |-> "", transliteration |-> "",
               segments |-> segs, exampleSentenceThai |-> "",
               exampleSentenceEnglish |-> ""])

\* mutant of PatchSegments: the example sentences are not carried over
PatchSegmentsDropsExamples(prev, segs) ==
    IF prev # Null
    THEN Some([Get(prev) EXCEPT !.segments = segs,
                                !.exampleSentenceThai = "",
                                !.exampleSentenceEnglish = ""])
    ELSE Null

\* prev => prev ? { ...prev, segments: segmentsWithSynonyms } : null
PatchSegments(prev, segs) ==
    IF prev # Null THEN Some([Get(prev) EXCEPT !.segments = segs]) ELSE Null

\* the stale test of every continuation: currentSearchRef.current !== currentTerm
IsStale(i) == currentSearchRef # calls[i].currentTerm

\* the calls of handleSearch that have not returned yet
Pending == { i \in 1..Len(calls) : calls[i].pc # "done" }

\* handleSearch returns: its closure is dropped
Finish(i) ==
    calls' = [calls EXCEPT ![i] = [NewCall(calls[i].currentTerm) EXCEPT !.pc = "done"]]

----------------------------------------------------------------------------
(* The operations *)

\* onChange of the text field (and the click on a synonym chip)
SetInput(v) ==
    /\ v # input
    /\ input' = v
    /\ UNCHANGED <<status, result, currentSearchRef, calls, last, serviceVars, appVars>>

\* mutant of HandleSearch: the published result is not cleared
HandleSearchKeepsResult ==
    IF Trim(input) = <<>>
    THEN /\ last' = "ignored"
         /\ UNCHANGED <<input, status, result, currentSearchRef, calls, serviceVars, appVars>>
    ELSE /\ Len(calls) < MaxSubmits
         /\ Cardinality(Pending) < MaxPending
         /\ currentSearchRef' = Trim(input)
         /\ status' = "LOADING"
         /\ calls' = Append(calls, NewCall(Trim(input)))
         /\ last' = "submit"
         /\ UNCHANGED <<input, result, serviceVars, appVars>>

\* mutant of HandleSearch: the token is not set to the new text
HandleSearchKeepsToken ==
    IF Trim(input) = <<>>
    THEN /\ last' = "ignored"
         /\ UNCHANGED <<input, status, result, currentSearchRef, calls, serviceVars, appVars>>
    ELSE /\ Len(calls) < MaxSubmits
         /\ Cardinality(Pending) < MaxPending
         /\ result' = Null
         /\ status' = "LOADING"
         /\ calls' = Append(calls, NewCall(Trim(input)))
         /\ last' = "submit"
         /\ UNCHANGED <<input, currentSearchRef, serviceVars, appVars>>

\* handleSearch up to its first await
HandleSearch ==
    IF Trim(input) = <<>>
    THEN /\ last' = "ignored"
         /\ UNCHANGED <<input, status, result, currentSearchRef, calls, serviceVars, appVars>>
    ELSE /\ Len(calls) < MaxSubmits
         /\ Cardinality(Pending) < MaxPending
         /\ currentSearchRef' = Trim(input)
         /\ result' = Null
         /\ status' = "LOADING"
         /\ calls' = Append(calls, NewCall(Trim(input)))
         /\ last' = "submit"
         /\ UNCHANGED <<input, serviceVars, appVars>>

\* mutant of Stage1Resolve: the stale test after the first await is missing
Stage1ResolveUnchecked(i, basic) ==
    /\ calls[i].pc = "quickTranslate"
    /\ result' = Some(InitialResult(calls[i].currentTerm, basic))
    /\ status' = "PARTIAL_SUCCESS"
    /\ calls' = [calls EXCEPT
            ![i].pc = "analyzeText",
            ![i].basic = Some(basic),
            ![i].analyzeArgs =
                Some(<<calls[i].currentTerm, basic.translatedText>>)]
    /\ last' = "resolve1"
    /\ UNCHANGED <<input, currentSearchRef, serviceVars, appVars>>

\* mutant of Stage1Resolve: a stale call publishes nothing but still goes on to
\* analyzeText
Stage1ResolveStaleContinues(i, basic) ==
    /\ calls[i].pc = "quickTranslate"
    /\ IF IsStale(i)
       THEN /\ last' = "stale1"
            /\ UNCHANGED <<status, result>>
       ELSE /\ result' = Some(InitialResult(calls[i].currentTerm, basic))
            /\ status' = "PARTIAL_SUCCESS"
            /\ last' = "resolve1"
    /\ calls' = [calls EXCEPT
            ![i].pc = "analyzeText",
            ![i].basic = Some(basic),
            ![i].analyzeArgs =
                Some(<<calls[i].currentTerm, basic.translatedText>>)]
    /\ UNCHANGED <<input, currentSearchRef, serviceVars, appVars>>

\* quickTranslate resolves with basic: handleSearch up to its second await
Stage1Resolve(i, basic) ==
    /\ calls[i].pc = "quickTranslate"
    /\ IF IsStale(i)
       THEN /\ Finish(i)
            /\ last' = "stale1"
            /\ UNCHANGED <<status, result>>
       ELSE /\ result' = Some(InitialResult(calls[i].currentTerm, basic))
            /\ status' = "PARTIAL_SUCCESS"
            /\ calls' = [calls EXCEPT
                    ![i].pc = "analyzeText",
                    ![i].basic = Some(basic),
                    ![i].analyzeArgs =
                        Some(<<calls[i].currentTerm, basic.translatedText>>)]
            /\ last' = "resolve1"
    /\ UNCHANGED <<input, currentSearchRef, serviceVars, appVars>>

\* mutant of Catch: the failed call also resets the token
CatchClearsToken(i) ==
    /\ status' = "ERROR"
    /\ currentSearchRef' = <<>>
    /\ Finish(i)
    /\ UNCHANGED <<input, result, serviceVars, appVars>>

\* an await of the outer try rejects: the catch of handleSearch
Catch(i) ==
    /\ status' = "ERROR"
    /\ Finish(i)
    /\ UNCHANGED <<input, result, currentSearchRef, serviceVars, appVars>>

\* mutant of Stage1Reject: the error is reported and the pipeline goes on
Stage1RejectContinues(i) ==
    /\ calls[i].pc = "quickTranslate"
    /\ status' = "ERROR"
    /\ calls' = [calls EXCEPT
            ![i].pc = "analyzeText",
            ![i].basic = Some([translatedText |-> "", transliteration |-> ""]),
            ![i].analyzeArgs = Some(<<calls[i].currentTerm, "">>)]
    /\ last' = "reject1"
    /\ UNCHANGED <<input, result, currentSearchRef, serviceVars, appVars>>

\* quickTranslate rejects (the fast source and the fallback both failed)
Stage1Reject(i) ==
    /\ calls[i].pc = "quickTranslate"
    /\ Catch(i)
    /\ last' = "reject1"

\* mutant of Stage2Resolve: the stale test after the second await is missing
Stage2ResolveUnchecked(i, details) ==
    /\ calls[i].pc = "analyzeText"
    /\ LET initial == InitialResult(calls[i].currentTerm, Get(calls[i].basic))
           intermediate == Some(IntermediateResult(initial, details))
       IN  /\ result' = IF details.segments = <<>>
                        THEN PatchSegments(intermediate, details.segments)
                        ELSE intermediate
           /\ status' = "SUCCESS"
           /\ IF details.segments = <<>>
              THEN Finish(i)
              ELSE calls' = [calls EXCEPT
                       ![i] = [NewCall(calls[i].currentTerm) EXCEPT
                                   !.pc = "getSynonyms",
                                   !.synonymArgs = Some(details.segments)]]
           /\ last' = "resolve2"
    /\ UNCHANGED <<input, currentSearchRef, serviceVars, appVars>>

\* analyzeText resolves with details: handleSearch up to its third await; an
\* empty segment list comes back from getSynonymsForSegments at once, before
\* any other event is served
Stage2Resolve(i, details) ==
    /\ calls[i].pc = "analyzeText"
    /\ IF IsStale(i)
       THEN /\ Finish(i)
            /\ last' = "stale2"
            /\ UNCHANGED <<status, result>>
       ELSE LET initial == InitialResult(calls[i].currentTerm, Get(calls[i].basic))
                intermediate == Some(IntermediateResult(initial, details))
            IN  /\ result' = IF details.segments = <<>>
                             THEN PatchSegments(intermediate, details.segments)
                             ELSE intermediate
                /\ status' = "SUCCESS"
                /\ IF details.segments = <<>>
                   THEN Finish(i)
                   ELSE calls' = [calls EXCEPT
                            ![i] = [NewCall(calls[i].currentTerm) EXCEPT
                                        !.pc = "getSynonyms",
                                        !.synonymArgs = Some(details.segments)]]
                /\ last' = "resolve2"
    /\ UNCHANGED <<input, currentSearchRef, serviceVars, appVars>>

\* mutant of Stage2Reject: the error is reported and analyzeText is asked again
Stage2RejectRetries(i) ==
    /\ calls[i].pc = "analyzeText"
    /\ status' = "ERROR"
    /\ last' = "reject2"
    /\ UNCHANGED <<input, result, currentSearchRef, calls, serviceVars, appVars>>

\* analyzeText rejects
Stage2Reject(i) ==
    /\ calls[i].pc = "analyzeText"
    /\ Catch(i)
    /\ last' = "reject2"

\* mutant of Stage3Return: the stale test after the third await is missing
Stage3ReturnUnchecked(i, segs) ==
    /\ result' = PatchSegments(result, segs)
    /\ last' = "resolve3"
    /\ Finish(i)
    /\ UNCHANGED <<input, status, currentSearchRef, serviceVars, appVars>>

\* getSynonymsForSegments resolves with segs: the rest of the inner try
Stage3Return(i, segs) ==
    /\ IF IsStale(i)
       THEN /\ last' = "stale3"
            /\ UNCHANGED result
       ELSE /\ result' = PatchSegments(result, segs)
            /\ last' = "resolve3"
    /\ Finish(i)
    /\ UNCHANGED <<input, status, currentSearchRef, serviceVars, appVars>>

\* the synonym request is answered with data, merged into the segments
Stage3Resolve(i, data) ==
    /\ calls[i].pc = "getSynonyms"
    /\ Stage3Return(i, MergeSynonyms(Get(calls[i].synonymArgs), data))

\* the synonym request fails inside getSynonymsForSegments, which catches the
\* error and returns the segments it was given
Stage3Caught(i) ==
    /\ calls[i].pc = "getSynonyms"
    /\ Stage3Return(i, Get(calls[i].synonymArgs))

\* mutant of Stage3Reject: no inner try, the error reaches the outer catch
Stage3RejectFatal(i) ==
    /\ calls[i].pc = "getSynonyms"
    /\ Catch(i)
    /\ last' = "reject3"

\* getSynonymsForSegments rejects (an error outside its own try): the inner
\* catch of handleSearch
Stage3Reject(i) ==
    /\ calls[i].pc = "getSynonyms"
    /\ Finish(i)
    /\ last' = "reject3"
    /\ UNCHANGED <<input, status, result, currentSearchRef, serviceVars, appVars>>

Next ==
    \/ \E v \in Inputs : SetInput(v)
    \/ HandleSearch
    \/ \E i \in 1..Len(calls), basic \in BasicResults : Stage1Resolve(i, basic)
    \/ \E i \in 1..Len(calls) : Stage1Reject(i)
    \/ \E i \in 1..Len(calls), details \in DetailResults : Stage2Resolve(i, details)
    \/ \E i \in 1..Len(calls) : Stage2Reject(i)
    \/ \E i \in 1..Len(calls), data \in SynonymData : Stage3Resolve(i, data)
    \/ \E i \in 1..Len(calls) : Stage3Caught(i)
    \/ \E i \in 1..Len(calls) : Stage3Reject(i)

Spec == Init /\ [][Next]_vars

\* the fetcher call that call i of handleSearch is waiting for settles, one
\* way or the other
SettleCall(i) ==
    /\ i \in 1..Len(calls)
    /\ \/ \E basic \in BasicResults : Stage1Resolve(i, basic)
       \/ Stage1Reject(i)
       \/ \E details \in DetailResults : Stage2Resolve(i, details)
       \/ Stage2Reject(i)
       \/ \E data \in SynonymData : Stage3Resolve(i, data)
       \/ Stage3Caught(i)
       \/ Stage3Reject(i)

\* while calls of handleSearch are waiting, the fetcher call of one of them
\* settles in the end (less than: every awaited fetcher call settles)
Fairness == WF_vars(\E i \in 1..Len(calls) : SettleCall(i))

LiveSpec == Init /\ [][Next]_vars /\ Fairness

\* number of accepted submissions in a burst
MaxBurst == 4

\* handleSearch up to its first await, as HandleSearch, with no cap on the
\* number of calls still waiting: the Enter key submits in every status
HandleSearchBurst ==
    IF Trim(input) = <<>>
    THEN /\ last' = "ignored"
         /\ UNCHANGED <<input, status, result, currentSearchRef, calls, serviceVars, appVars>>
    ELSE /\ Len(calls) < MaxBurst
         /\ currentSearchRef' = Trim(input)
         /\ result' = Null
         /\ status' = "LOADING"
         /\ calls' = Append(calls, NewCall(Trim(input)))
         /\ last' = "submit"
         /\ UNCHANGED <<input, serviceVars, appVars>>

BurstNext ==
    \/ \E v \in Inputs : SetInput(v)
    \/ HandleSearchBurst
    \/ \E i \in 1..Len(calls) : SettleCall(i)

\* the pipeline when submissions follow each other faster than the fetchers
\* answer
BurstSpec == Init /\ [][BurstNext]_vars

----------------------------------------------------------------------------
(* The fetchers of geminiService.ts, one call at a time *)

pipelineVars == <<input, status, result, currentSearchRef, calls, last>>

\* segments.slice(0, 8): the number of segments the synonym request names
RequestCap == 8

\* length of the longest segment list given to getSynonymsForSegments
MaxSegments == 10

\* the characters that stand for the Thai block U+0E00..U+0E7F
ThaiChars == {"k", "m"}

\* the test of the text against the Thai block, /[U+0E00-U+0E7F]/
IsThaiInput(text) == \E n \in 1..Len(text) : text[n] \in ThaiChars

\* the texts quickTranslate is called with
QueryTexts == { <<"a">>, <<"k">>, <<"a", "k">> }

\* array[n] of JavaScript (n counted from 0); "" stands for undefined / null
ElemAt(array, n) == IF n + 1 <= Len(array) THEN array[n + 1] ELSE ""

\* a field of a parsed JSON object; "" stands for undefined
Field(object, f) == IF f \in DOMAIN object THEN object[f] ELSE ""

\* data[0] of the bodies translate.googleapis.com can answer with: absent, or a
\* list of parts, each absent (null) or [translated, original, romanization of
\* the output, romanization of the input]
TranslationParts ==
    { Null,
      Some(<<>>),
      Some(<< Some(<<"T1", "a", "r1">>) >>),
      Some(<< Some(<<"T1", "k", "", "r2">>) >>),
      Some(<< Some(<<"T1", "a">>), Some(<<"T2", "b", "r1", "r2">>) >>),
      Some(<< Some(<<"", "a">>) >>),
      Some(<< Some(<<"T1", "a", "r1">>), Null >>) }

\* what response.json() gives: a rejection (the body is no JSON) or the data
Bodies ==
    { [json |-> FALSE] } \cup { [json |-> TRUE, parts |-> ps] : ps \in TranslationParts }

\* how the fetch of quickTranslate settles
FastResponses ==
    { [kind |-> "networkError"] }
        \cup { [kind |-> "response", ok |-> o, body |-> b] : o \in BOOLEAN, b \in Bodies }

\* translationParts.map(part => part[0]).filter(t => t).join("")
RECURSIVE JoinParts(_)
JoinParts(ps) ==
    IF ps = <<>> THEN "" ELSE ElemAt(Get(Head(ps)), 0) \o JoinParts(Tail(ps))

\* lines 30-60 of quickTranslate: Null when a TypeError is thrown, else the
\* value returned
ParseTranslation(text, parts) ==
    IF parts = Null \/ \E n \in 1..Len(Get(parts)) : Get(parts)[n] = Null
    THEN Null
    ELSE LET ps == Get(parts)
             translatedText == JoinParts(ps)
             lastPart == IF ps = <<>> THEN Null ELSE ps[Len(ps)]
             transliteration ==
                 IF lastPart # Null /\ Len(Get(lastPart)) >= 3
                 THEN (IF IsThaiInput(text) THEN ElemAt(Get(lastPart), 3)
                                            ELSE ElemAt(Get(lastPart), 2))
                 ELSE ""
         IN  Some([translatedText |->
                       IF translatedText # "" THEN translatedText
                                              ELSE "Translation failed",
                   transliteration |-> transliteration])

\* mutant of FastResult: the status of the response is not looked at
FastResultAnyStatus(text, response) ==
    IF response.kind = "networkError" THEN Null
    ELSE IF ~response.body.json THEN Null
    ELSE ParseTranslation(text, response.body.parts)

\* the try block of quickTranslate: Null when it throws, else the value returned
FastResult(text, response) ==
    IF response.kind = "networkError" THEN Null
    ELSE IF ~response.ok THEN Null
    ELSE IF ~response.body.json THEN Null
    ELSE ParseTranslation(text, response.body.parts)

\* the request of quickTranslate to translate.googleapis.com
TranslateRequest(text) ==
    [to |-> "translate", sl |-> "auto",
     tl |-> IF IsThaiInput(text) THEN "en" ELSE "th", q |-> text]

\* the request of quickTranslateGeminiFallback (its prompt names the target
\* language only)
FallbackRequest(text) ==
    [to |-> "gemini", task |-> "translate",
     target |-> IF IsThaiInput(text) THEN "English" ELSE "Thai"]

\* how generateContent of the fallback settles: a rejection, or a response
\* whose text is empty, is no JSON, or parses to an object
FallbackResponses ==
    { [kind |-> "error"], [kind |-> "empty"], [kind |-> "unparsable"],
      [kind |-> "object", parsed |-> [translatedText |-> "F1", transliteration |-> "f1"]],
      [kind |-> "object", parsed |-> [translatedText |-> "F1"]],
      [kind |-> "object", parsed |-> [transliteration |-> "f1"]] }

\* lines 80-84 of quickTranslateGeminiFallback: Null when it rejects
FallbackResult(response) ==
    IF response.kind \in {"error", "unparsable"} THEN Null
    ELSE LET parsed == IF response.kind = "empty" THEN <<>> ELSE response.parsed
             translatedText == Field(parsed, "translatedText")
         IN  Some([translatedText |->
                       IF translatedText # "" THEN translatedText
                                              ELSE "Translation Error",
                   transliteration |-> Field(parsed, "transliteration")])

Resolved(v) == [kind |-> "resolved", value |-> v]
Rejected == [kind |-> "rejected"]

\* quickTranslate(text) up to its first await
QuickTranslateCall(text) ==
    /\ fetcher.pc = "done"
    /\ fetcher' = [fn |-> "quickTranslate", pc |-> "fetch", text |-> text,
                   fast |-> Null, fallback |-> Null, outcome |-> Null]
    /\ requests' = << TranslateRequest(text) >>
    /\ UNCHANGED <<pipelineVars, appVars>>

\* the fetch settles: the rest of the try block, or the catch, which calls the
\* fallback
FastSettles(response) ==
    /\ fetcher.fn = "quickTranslate"
    /\ fetcher.pc = "fetch"
    /\ LET value == FastResult(fetcher.text, response)
       IN  IF value # Null
           THEN /\ fetcher' = [fetcher EXCEPT !.pc = "done",
                                   !.fast = Some(response),
                                   !.outcome = Some(Resolved(Get(value)))]
                /\ UNCHANGED requests
           ELSE /\ fetcher' = [fetcher EXCEPT !.pc = "fallback",
                                   !.fast = Some(response)]
                /\ requests' = Append(requests, FallbackRequest(fetcher.text))
    /\ UNCHANGED <<pipelineVars, appVars>>

\* generateContent of the fallback settles: quickTranslate settles as the
\* fallback does
FallbackSettles(response) ==
    /\ fetcher.fn = "quickTranslate"
    /\ fetcher.pc = "fallback"
    /\ LET value == FallbackResult(response)
       IN  fetcher' = [fetcher EXCEPT !.pc = "done",
                           !.fallback = Some(response),
                           !.outcome = Some(IF value # Null THEN Resolved(Get(value))
                                                            ELSE Rejected)]
    /\ UNCHANGED <<requests, pipelineVars, appVars>>

\* the text of the n-th segment of a long list: the first and the third are
\* the same word
WordAt(n) ==
    IF n \in {1, 3} THEN "k" ELSE IF n = 2 THEN "m" ELSE "w" \o ToString(n)

\* the segment lists getSynonymsForSegments is called with
SegmentLists ==
    { [n \in 1..len |-> Seg(WordAt(n))] : len \in {0, 3, RequestCap, MaxSegments} }

\* what the synonym request can be answered with, once parsed: as in the
\* pipeline, or an entry for the last word of the longest list
ServiceSynonymData ==
    SynonymData \cup { <<[word |-> WordAt(MaxSegments), synonyms |-> <<"s3">>]>> }

\* how generateContent of the synonym request settles
SynonymResponses ==
    { [kind |-> "error"], [kind |-> "unparsable"] }
        \cup { [kind |-> "array", data |-> d] : d \in ServiceSynonymData }

\* mutant of Targets: every segment is named in the request
TargetsAll(segments) == segments

\* segments.slice(0, 8)
Targets(segments) ==
    SubSeq(segments, 1, IF Len(segments) < RequestCap THEN Len(segments) ELSE RequestCap)

\* the request of getSynonymsForSegments: targets.map(s => s.thai)
SynonymRequest(segments) ==
    [to |-> "gemini", task |-> "synonyms",
     words |-> [n \in 1..Len(Targets(segments)) |-> Targets(segments)[n].thai]]

\* getSynonymsForSegments(segments) up to its await; an empty list is returned
\* at once
GetSynonymsCall(segments) ==
    /\ fetcher.pc = "done"
    /\ IF segments = <<>>
       THEN /\ fetcher' = [fn |-> "getSynonymsForSegments", pc |-> "done",
                           segments |-> segments, answer |-> Null,
                           outcome |-> Some(Resolved(segments))]
            /\ requests' = <<>>
       ELSE /\ fetcher' = [fn |-> "getSynonymsForSegments", pc |-> "generate",
                           segments |-> segments, answer |-> Null,
                           outcome |-> Null]
            /\ requests' = << SynonymRequest(segments) >>
    /\ UNCHANGED <<pipelineVars, appVars>>

\* getSynonymsForSegments(segments) throws before its try block (the client
\* cannot be made): nothing is sent
GetSynonymsThrows(segments) ==
    /\ fetcher.pc = "done"
    /\ segments # <<>>
    /\ fetcher' = [fn |-> "getSynonymsForSegments", pc |-> "done",
                   segments |-> segments, answer |-> Null,
                   outcome |-> Some(Rejected)]
    /\ requests' = <<>>
    /\ UNCHANGED <<pipelineVars, appVars>>

\* generateContent of the synonym request settles: the merge, or the catch,
\* which returns the segments as they came
SynonymsSettle(response) ==
    /\ fetcher.fn = "getSynonymsForSegments"
    /\ fetcher.pc = "generate"
    /\ fetcher' = [fetcher EXCEPT !.pc = "done",
                       !.answer = Some(response),
                       !.outcome = Some(Resolved(
                           IF response.kind = "array"
                           THEN MergeSynonyms(fetcher.segments, response.data)
                           ELSE fetcher.segments))]
    /\ UNCHANGED <<requests, pipelineVars, appVars>>

ServiceNext ==
    \/ \E text \in QueryTexts : QuickTranslateCall(text)
    \/ \E response \in FastResponses : FastSettles(response)
    \/ \E response \in FallbackResponses : FallbackSettles(response)
    \/ \E segments \in SegmentLists : GetSynonymsCall(segments)
    \/ \E segments \in SegmentLists : GetSynonymsThrows(segments)
    \/ \E response \in SynonymResponses : SynonymsSettle(response)

ServiceSpec == Init /\ [][ServiceNext]_vars

----------------------------------------------------------------------------
(* The vocabulary and the folders (App, src/unnamed/part_002), with the     *)
(* handlers of the Translate tab and of the Vocabulary tab that call them.  *)
(* A handler runs to its end before the next event is taken, so every       *)
(* action is one handler with the App function it calls.                    *)

\* number of cards and folders the user makes in the tabs and of files the
\* user opens (each at a later millisecond than the one before it)
MaxClock == 4

\* an absent folderId (the card is in General)
General == Null

\* the ids of a list of cards or folders
Ids(list) == { list[k].id : k \in 1..Len(list) }

\* the ids of the cards of the folder
CardsOf(id) ==
    { vocabulary[k].id :
        k \in {j \in 1..Len(vocabulary) : vocabulary[j].folderId = Some(id)} }

\* Date.now().toString(); the handler that reads the clock leaves it one later
TimeId == ToString(now)

\* what Math.random().toString() can give
RandomStrings == {".1", ".2"}

\* targetFolderId || undefined
TargetFolder == IF targetFolderId # "" THEN Some(targetFolderId) ELSE General

\* the folder select of the Translate tab: General or one of the folders listed
SetTargetFolderId(id) ==
    /\ id = "" \/ \E k \in 1..Len(folders) : folders[k].id = id
    /\ targetFolderId' = id
    /\ UNCHANGED <<vocabulary, folders, now>>
    /\ lastOp' = [op |-> "setTargetFolderId", id |-> id, cards |-> {}]
    /\ UNCHANGED <<reader, pipelineVars, serviceVars, quizVars>>

\* isSaved of the Translate tab
IsSaved(thaiText) ==
    /\ thaiText # <<>>
    /\ \E k \in 1..Len(vocabulary) : Trim(vocabulary[k].thai) = Trim(thaiText)

\* addToVocab: newVocab = [...vocabulary, card]
AddToVocab(vocab, card) == Append(vocab, card)

\* the segments the Translate tab can show with a save button
ShownSegments ==
    { [thai |-> <<"k">>, english |-> <<"e">>],
      [thai |-> <<"k", " ">>, english |-> <<"e">>] }

\* the card handleAddSegment builds
SegmentCard(segment, rnd) ==
    [id |-> TimeId \o rnd, thai |-> segment.thai, english |-> segment.english,
     dateAdded |-> now, folderId |-> TargetFolder]

\* handleAddSegment: nothing for a saved text, else the new card is added
HandleAddSegment(segment, rnd) ==
    /\ now < MaxClock
    /\ ~IsSaved(segment.thai)
    /\ vocabulary' = AddToVocab(vocabulary, SegmentCard(segment, rnd))
    /\ now' = now + 1
    /\ UNCHANGED <<folders, targetFolderId>>
    /\ lastOp' = [op |-> "handleAddSegment", id |-> TimeId \o rnd, cards |-> {}]
    /\ UNCHANGED <<reader, pipelineVars, serviceVars, quizVars>>

\* the results the Translate tab can show while the user saves the main entry
ShownResults ==
    { [originalText |-> <<"k">>, translatedText |-> <<"a">>],
      [originalText |-> <<"a">>, translatedText |-> <<"m", "k">>] }

\* mainThai of handleAddMain
MainThai(shown) ==
    IF IsThaiInput(shown.originalText) THEN shown.originalText
    ELSE shown.translatedText

\* mainEnglish of handleAddMain
MainEnglish(shown) ==
    IF IsThaiInput(shown.originalText) THEN shown.translatedText
    ELSE shown.originalText

\* the card handleAddMain builds
MainCard(shown) ==
    [id |-> TimeId, thai |-> MainThai(shown), english |-> MainEnglish(shown),
     dateAdded |-> now, folderId |-> TargetFolder]

\* handleAddMain for the result on screen
HandleAddMain(shown) ==
    /\ now < MaxClock
    /\ ~IsSaved(MainThai(shown))
    /\ vocabulary' = AddToVocab(vocabulary, MainCard(shown))
    /\ now' = now + 1
    /\ UNCHANGED <<folders, targetFolderId>>
    /\ lastOp' = [op |-> "handleAddMain", id |-> TimeId, cards |-> {}]
    /\ UNCHANGED <<reader, pipelineVars, serviceVars, quizVars>>

\* vocabulary.filter(c => c.id !== id)
WithoutCard(vocab, id) == SelectSeq(vocab, LAMBDA c : c.id # id)

\* deleteFromVocab, from the remove button of a card
DeleteFromVocab(id) ==
    /\ \E k \in 1..Len(vocabulary) : vocabulary[k].id = id
    /\ vocabulary' = WithoutCard(vocabulary, id)
    /\ UNCHANGED <<folders, targetFolderId, now>>
    /\ lastOp' = [op |-> "deleteFromVocab", id |-> id, cards |-> {}]
    /\ UNCHANGED <<reader, pipelineVars, serviceVars, quizVars>>

\* updateVocabCard: vocabulary.map(c => c.id === updatedCard.id ? updatedCard : c)
UpdateVocabCard(vocab, updatedCard) ==
    [k \in 1..Len(vocab) |->
        IF vocab[k].id = updatedCard.id THEN updatedCard ELSE vocab[k]]

\* moveCard, from the move menu of card k: General or one of the folders listed
MoveCard(k, target) ==
    /\ k \in 1..Len(vocabulary)
    /\ target = General \/ \E j \in 1..Len(folders) : target = Some(folders[j].id)
    /\ vocabulary' = UpdateVocabCard(vocabulary, [vocabulary[k] EXCEPT !.folderId = target])
    /\ UNCHANGED <<folders, targetFolderId, now>>
    /\ lastOp' = [op |-> "moveCard", id |-> vocabulary[k].id, cards |-> {}]
    /\ UNCHANGED <<reader, pipelineVars, serviceVars, quizVars>>

\* the names the user can type for a new folder
FolderNames == { <<"w">>, <<" ", "w">>, <<" ">> }

\* handleCreateFolder and createFolder: a name that is not blank makes a folder
CreateFolder(name) ==
    /\ now < MaxClock
    /\ Trim(name) # <<>>
    /\ folders' = Append(folders, [id |-> TimeId, name |-> Trim(name), createdAt |-> now])
    /\ now' = now + 1
    /\ UNCHANGED <<vocabulary, targetFolderId>>
    /\ lastOp' = [op |-> "createFolder", id |-> TimeId, cards |-> {}]
    /\ UNCHANGED <<reader, pipelineVars, serviceVars, quizVars>>

\* folders.filter(f => f.id !== id)
WithoutFolder(fs, id) == SelectSeq(fs, LAMBDA f : f.id # id)

\* mutant of Uncategorized: the cards of the folder are dropped with it
UncategorizedDropsCards(vocab, id) ==
    SelectSeq(vocab, LAMBDA c : c.folderId # Some(id))

\* the vocabulary.map of deleteFolder: a card of the folder loses its folderId
Uncategorized(vocab, id) ==
    [k \in 1..Len(vocab) |->
        IF vocab[k].folderId = Some(id)
        THEN [vocab[k] EXCEPT !.folderId = General]
        ELSE vocab[k]]

\* handleDeleteFolderWithConfirm with the confirmation given, and deleteFolder
DeleteFolder(id) ==
    /\ \E k \in 1..Len(folders) : folders[k].id = id
    /\ folders' = WithoutFolder(folders, id)
    /\ vocabulary' = Uncategorized(vocabulary, id)
    /\ UNCHANGED <<targetFolderId, now>>
    /\ lastOp' = [op |-> "deleteFolder", id |-> id, cards |-> CardsOf(id)]
    /\ UNCHANGED <<reader, pipelineVars, serviceVars, quizVars>>

\* the merge of importData: the ids are collected once, before the loop, and
\* every imported item whose id is not among them is pushed
Merge(existing, imported) ==
    existing \o SelectSeq(imported, LAMBDA x : x.id \notin Ids(existing))

\* importData of the render whose vocabulary and folders are given
ImportData(vocab, fs, importedVocab, importedFolders) ==
    /\ vocabulary' = Merge(vocab, importedVocab)
    /\ folders' = Merge(fs, importedFolders)

\* the cards and the folders a backup file can hold
FileCard(id, th, folder) ==
    [id |-> id, thai |-> th, english |-> <<"e">>, dateAdded |-> 0, folderId |-> folder]

FileFolder(id, name) == [id |-> id, name |-> name, createdAt |-> 0]

\* the parsed files: vocabulary and folders are lists, or absent (Null)
Files ==
    { [vocabulary |-> Null, folders |-> Some(<<FileFolder("9", <<"w">>)>>)],
      [vocabulary |-> Some(<<FileCard("0", <<"n">>, General),
                             FileCard("9", <<"m">>, General),
                             FileCard("9", <<"n">>, General)>>),
       folders |-> Null],
      [vocabulary |-> Some(<<FileCard("9", <<"m">>, Some("9"))>>),
       folders |-> Some(<<FileFolder("0", <<"x">>), FileFolder("9", <<"w">>),
                          FileFolder("9", <<"x">>)>>)] }

\* handleFileChange: the file is handed to a FileReader; its onload is a
\* closure of this render, so the onImport it calls is the importData that
\* sees the vocabulary and the folders of now
HandleFileChange(file) ==
    /\ reader = Null
    /\ now < MaxClock
    /\ reader' = Some([file |-> file, vocabulary |-> vocabulary, folders |-> folders])
    /\ now' = now + 1
    /\ UNCHANGED <<vocabulary, folders, targetFolderId>>
    /\ lastOp' = [op |-> "handleFileChange", id |-> "", cards |-> {}]
    /\ UNCHANGED <<pipelineVars, serviceVars, quizVars>>

\* reader.onload: a file with a vocabulary list is imported, with its folders
\* or with none; any other file is refused with an alert
ReaderOnload ==
    /\ reader # Null
    /\ LET file == Get(reader).file
       IN  IF file.vocabulary # Null
           THEN ImportData(Get(reader).vocabulary, Get(reader).folders,
                           Get(file.vocabulary),
                           IF file.folders # Null THEN Get(file.folders) ELSE <<>>)
           ELSE UNCHANGED <<vocabulary, folders>>
    /\ reader' = Null
    /\ UNCHANGED <<targetFolderId, now>>
    /\ lastOp' = [op |-> "onload", id |-> "", cards |-> IF Get(reader).file.vocabulary # Null
                                  THEN Ids(Get(Get(reader).file.vocabulary)) ELSE {}]
    /\ UNCHANGED <<pipelineVars, serviceVars, quizVars>>

VocabNext ==
    \/ \E id \in {""} \cup Ids(folders) : SetTargetFolderId(id)
    \/ \E segment \in ShownSegments, rnd \in RandomStrings : HandleAddSegment(segment, rnd)
    \/ \E shown \in ShownResults : HandleAddMain(shown)
    \/ \E id \in Ids(vocabulary) : DeleteFromVocab(id)
    \/ \E k \in 1..Len(vocabulary), target \in {General} \cup {Some(i) : i \in Ids(folders)} :
          MoveCard(k, target)
    \/ \E name \in FolderNames : CreateFolder(name)
    \/ \E id \in Ids(folders) : DeleteFolder(id)

\* the vocabulary as the tabs change it
VocabSpec == Init /\ [][VocabNext]_vars

ImportNext ==
    \/ \E shown \in ShownResults : HandleAddMain(shown)
    \/ \E id \in Ids(vocabulary) : DeleteFromVocab(id)
    \/ \E name \in FolderNames : CreateFolder(name)
    \/ \E id \in Ids(folders) : DeleteFolder(id)
    \/ \E file \in Files : HandleFileChange(file)
    \/ ReaderOnload

\* the vocabulary as imports of backup files change it
ImportSpec == Init /\ [][ImportNext]_vars

----------------------------------------------------------------------------
(* The quiz (QuizTab, src/unnamed/part_000).  The three tabs stay mounted,  *)
(* so the quiz keeps its state while the user changes the vocabulary in     *)
(* another tab.  score and selectedOption are written by the handlers and   *)
(* read by the display only; they are left out, and so are the sounds.      *)

\* a session ends after this many questions (questionCount >= 9)
LastQuestion == 9

\* number of cards (the last ones of the vocabulary) the user moves between
\* the folders while the quiz is on
MaxMoved == 2

\* the vocabulary the quiz is played on: four cards in General and one in the
\* folder "f"
QuizCard(id, th, en, folder) ==
    [id |-> id, thai |-> th, english |-> en, dateAdded |-> 0, folderId |-> folder]

Deck ==
    << QuizCard("1", <<"k">>, <<"a">>, General),
       QuizCard("2", <<"m">>, <<"b">>, General),
       QuizCard("3", <<"k", "m">>, <<"c">>, General),
       QuizCard("4", <<"m", "k">>, <<"d">>, General),
       QuizCard("5", <<"k", "k">>, <<"e">>, Some("f")) >>

\* the state of the program once the user has saved the deck
QuizInit ==
    /\ input = <<>>
    /\ status = "IDLE"
    /\ result = Null
    /\ currentSearchRef = <<>>
    /\ calls = <<>>
    /\ last = "init"
    /\ fetcher = NoCall
    /\ requests = <<>>
    /\ vocabulary = Deck
    /\ folders = <<[id |-> "f", name |-> <<"w">>, createdAt |-> 0]>>
    /\ targetFolderId = ""
    /\ now = 0
    /\ reader = Null
    /\ lastOp = [op |-> "init", id |-> "", cards |-> {}]
    /\ step = "SETUP"
    /\ selectedFolderIds = {}
    /\ currentQuestion = Null
    /\ questionCount = 0
    /\ feedback = Null
    /\ usedCardIds = {}
    /\ timer = Null

\* getActiveVocabulary of the render with this vocabulary and this selection
GetActiveVocabulary(vocab, selected) ==
    IF selected = {} THEN <<>>
    ELSE SelectSeq(vocab, LAMBDA c :
            \/ "GENERAL" \in selected /\ c.folderId = General
            \/ c.folderId # General /\ Get(c.folderId) \in selected)

\* the candidatePool of generateQuestion: the unused cards, or all of them
CandidatePool(activeVocab, used) ==
    LET unused == SelectSeq(activeVocab, LAMBDA c : c.id \notin used)
    IN  IF unused = <<>> THEN activeVocab ELSE unused

\* the values generateQuestion can take as distractors: those of the other
\* active cards that are not empty, not blank and not the correct answer
DistractorValues(activeVocab, correctCard, type) ==
    LET correctAnswer == IF type = "THAI_TO_ENG" THEN correctCard.english
                         ELSE correctCard.thai
        vals == { IF type = "THAI_TO_ENG" THEN activeVocab[k].english
                  ELSE activeVocab[k].thai :
                    k \in {j \in 1..Len(activeVocab) : activeVocab[j].id # correctCard.id} }
    IN  { val \in vals : val # <<>> /\ val # correctAnswer /\ Trim(val) # <<>> }

\* the options generateQuestion can end with: the correct answer and the
\* first distractors of the shuffled pool, up to four values in all (the
\* order of the buttons is left out)
OptionSets(activeVocab, correctCard, type) ==
    LET correctAnswer == IF type = "THAI_TO_ENG" THEN correctCard.english
                         ELSE correctCard.thai
        vals == DistractorValues(activeVocab, correctCard, type)
        wanted == IF Cardinality(vals) < 3 THEN Cardinality(vals) ELSE 3
    IN  { {correctAnswer} \cup d : d \in {x \in SUBSET vals : Cardinality(x) = wanted} }

\* the question generateQuestion builds for the card, the direction and the
\* options drawn
Question(correctCard, type, options) ==
    [question |-> IF type = "THAI_TO_ENG" THEN correctCard.thai ELSE correctCard.english,
     correctAnswer |-> IF type = "THAI_TO_ENG" THEN correctCard.english ELSE correctCard.thai,
     options |-> options,
     type |-> type,
     card |-> correctCard]

\* the questions generateQuestion can return (none: it returns null), called
\* in the render with this vocabulary and this selection when the history of
\* used cards is `used`
GenerateQuestion(vocab, selected, used) ==
    LET activeVocab == GetActiveVocabulary(vocab, selected)
        pool == CandidatePool(activeVocab, used)
    IN  IF Len(activeVocab) < 4 THEN {}
        ELSE UNION { { Question(pool[k], type, options) :
                         options \in OptionSets(activeVocab, pool[k], type) } :
                     k \in 1..Len(pool), type \in {"THAI_TO_ENG", "ENG_TO_THAI"} }

\* the texts of the cards
Texts(vocab) ==
    { vocab[k].thai : k \in 1..Len(vocab) } \cup { vocab[k].english : k \in 1..Len(vocab) }

\* toggleFolderSelection, from a check box of the setup screen
ToggleFolderSelection(id) ==
    /\ step = "SETUP"
    /\ id \in {"GENERAL"} \cup Ids(folders)
    /\ selectedFolderIds' = IF id \in selectedFolderIds
                            THEN selectedFolderIds \ {id}
                            ELSE selectedFolderIds \cup {id}
    /\ UNCHANGED <<step, currentQuestion, questionCount, feedback, usedCardIds, timer>>
    /\ UNCHANGED <<pipelineVars, serviceVars, vocabVars>>

\* toggleSelectAll
ToggleSelectAll ==
    /\ step = "SETUP"
    /\ LET allFolderIds == {"GENERAL"} \cup Ids(folders)
       IN  selectedFolderIds' = IF allFolderIds \subseteq selectedFolderIds
                                THEN {} ELSE allFolderIds
    /\ UNCHANGED <<step, currentQuestion, questionCount, feedback, usedCardIds, timer>>
    /\ UNCHANGED <<pipelineVars, serviceVars, vocabVars>>

\* startQuiz, from the start button (enabled with four active cards or more)
StartQuiz ==
    /\ step = "SETUP"
    /\ Len(GetActiveVocabulary(vocabulary, selectedFolderIds)) >= 4
    /\ questionCount' = 0
    /\ LET qs == GenerateQuestion(vocabulary, selectedFolderIds, {})
       IN  IF qs = {}
           THEN /\ usedCardIds' = {}
                /\ UNCHANGED <<step, currentQuestion>>
           ELSE \E q \in qs :
                   /\ usedCardIds' = {q.card.id}
                   /\ currentQuestion' = Some(q)
                   /\ step' = "PLAYING"
    /\ UNCHANGED <<selectedFolderIds, feedback, timer>>
    /\ UNCHANGED <<pipelineVars, serviceVars, vocabVars>>

\* handleAnswer, from an option button (enabled while feedback is null); the
\* callback handed to setTimeout is a closure of this render
HandleAnswer(answer) ==
    /\ step = "PLAYING"
    /\ currentQuestion # Null
    /\ answer \in Get(currentQuestion).options
    /\ feedback = Null
    /\ feedback' = Some(IF answer = Get(currentQuestion).correctAnswer
                        THEN "CORRECT" ELSE "WRONG")
    /\ timer' = Some([questionCount |-> questionCount, vocabulary |-> vocabulary,
                      selectedFolderIds |-> selectedFolderIds])
    /\ UNCHANGED <<step, selectedFolderIds, currentQuestion, questionCount, usedCardIds>>
    /\ UNCHANGED <<pipelineVars, serviceVars, vocabVars>>

\* the else branch of the callback: no next question, the session ends
NextQuestionFails ==
    /\ step' = "SUMMARY"
    /\ UNCHANGED <<currentQuestion, feedback, usedCardIds>>

\* the callback of setTimeout, 1200 ms after the answer
TimerFires ==
    /\ timer # Null
    /\ timer' = Null
    /\ questionCount' = questionCount + 1
    /\ IF Get(timer).questionCount >= LastQuestion
       THEN /\ step' = "SUMMARY"
            /\ feedback' = Null
            /\ UNCHANGED <<currentQuestion, usedCardIds>>
       ELSE LET qs == GenerateQuestion(Get(timer).vocabulary,
                                       Get(timer).selectedFolderIds, usedCardIds)
            IN  IF qs # {}
                THEN \E q \in qs :
                        /\ usedCardIds' = usedCardIds \cup {q.card.id}
                        /\ currentQuestion' = Some(q)
                        /\ feedback' = Null
                        /\ UNCHANGED step
                ELSE NextQuestionFails
    /\ UNCHANGED selectedFolderIds
    /\ UNCHANGED <<pipelineVars, serviceVars, vocabVars>>

\* the button of the summary screen
BackToSetup ==
    /\ step = "SUMMARY"
    /\ step' = "SETUP"
    /\ UNCHANGED <<selectedFolderIds, currentQuestion, questionCount, feedback,
                   usedCardIds, timer>>
    /\ UNCHANGED <<pipelineVars, serviceVars, vocabVars>>

QuizNext ==
    \/ \E id \in {"GENERAL"} \cup Ids(folders) : ToggleFolderSelection(id)
    \/ ToggleSelectAll
    \/ StartQuiz
    \/ \E answer \in Texts(vocabulary) : HandleAnswer(answer)
    \/ TimerFires
    \/ BackToSetup
    \/ \E k \in (Len(vocabulary) - MaxMoved + 1)..Len(vocabulary),
          target \in {General} \cup {Some(i) : i \in Ids(folders)} :
          MoveCard(k, target)

\* the quiz, played while cards are moved between the folders
QuizSpec == QuizInit /\ [][QuizNext]_vars

----------------------------------------------------------------------------
(* Vocabulary of the properties *)

\* a text that is empty once its white space is trimmed
IsBlank(s) == \A k \in 1..Len(s) : s[k] = Space

Spaces(n) == [k \in 1..n |-> Space]

\* t is s without its leading and trailing white space
IsTrimOf(t, s) ==
    /\ t # <<>> => (t[1] # Space /\ t[Len(t)] # Space)
    /\ \E a, b \in 0..Len(s) : s = Spaces(a) \o t \o Spaces(b)

\* a different query was accepted after call i was made
Superseded(i) ==
    \E j \in (i + 1)..Len(calls) : calls[j].currentTerm # calls[i].currentTerm

\* call i launched neither Stage 2 nor Stage 3 and has returned
ReturnedAfterStage1(c) ==
    c.pc = "done" /\ c.analyzeArgs = Null /\ c.synonymArgs = Null

----------------------------------------------------------------------------
(* The properties *)

\* C1: when quickTranslate resolves for a query q1 while a different query q2
\* is the active one, the resolution changes neither result nor status, starts
\* no Stage 2, and what is displayed (if anything) is a result for q2.
C1_StaleStage1SuccessIsDropped ==
    [][\A i \in 1..Len(calls), basic \in BasicResults :
         (Stage1Resolve(i, basic) /\ currentSearchRef # calls[i].currentTerm)
            => /\ result' = result
               /\ status' = status
               /\ ReturnedAfterStage1(calls'[i])
               /\ result' # Null =>
                    Get(result').originalText = currentSearchRef']_vars

\* q1's Stage 1 resolved stale after q2's pipeline had published its result
C1_Witness ==
    /\ last = "stale1"
    /\ result # Null
    /\ Get(result).originalText = currentSearchRef
    /\ \E i \in 1..Len(calls) :
          calls[i].pc = "done" /\ calls[i].currentTerm # currentSearchRef

\* C2: a Stage-1 or Stage-2 failure of a query that is no longer the active
\* one leaves status and result exactly as they were.
C2_StaleFailureIsDropped ==
    [][\A i \in 1..Len(calls) :
         ((Stage1Reject(i) \/ Stage2Reject(i))
            /\ currentSearchRef # calls[i].currentTerm)
            => (status' = status /\ result' = result)]_vars

\* C3: when analyzeText resolves for a query q while a different query is the
\* active one, the resolution changes neither result nor status and starts no
\* Stage 3; the result does not carry q's text.
C3_StaleStage2SuccessIsDropped ==
    [][\A i \in 1..Len(calls), details \in DetailResults :
         (Stage2Resolve(i, details) /\ currentSearchRef # calls[i].currentTerm)
            => /\ result' = result
               /\ status' = status
               /\ calls'[i].pc = "done" /\ calls'[i].synonymArgs = Null
               /\ result' # Null =>
                    Get(result').originalText # calls[i].currentTerm]_vars

\* q's Stage 2 resolved stale while the active query had a result on display
C3_Witness ==
    /\ last = "stale2"
    /\ status \in {"PARTIAL_SUCCESS", "SUCCESS"}
    /\ result # Null
    /\ Get(result).originalText = currentSearchRef

\* C4 (its successful outcomes): once a different query was accepted after a
\* call, no stage of that call that resolves afterwards changes result or
\* status, whatever was submitted later.
C4_SupersededOutcomeIsDropped ==
    [][\A i \in 1..Len(calls) :
         (/\ Superseded(i)
          /\ \/ \E basic \in BasicResults : Stage1Resolve(i, basic)
             \/ \E details \in DetailResults : Stage2Resolve(i, details)
             \/ \E data \in SynonymData : Stage3Resolve(i, data)
             \/ Stage3Caught(i))
            => (result' = result /\ status' = status)]_vars

\* C5: handleSearch on an input that is empty after trimming changes neither
\* status, result nor currentSearchRef and starts no fetcher.
C5_BlankSubmitIsNoOp ==
    [][(HandleSearch /\ IsBlank(input))
          => UNCHANGED <<status, result, currentSearchRef, calls, input>>]_vars

\* a white-space input was submitted while a complete result was on display
C5_Witness ==
    /\ last = "ignored"
    /\ input = <<" ">>
    /\ status = "SUCCESS"
    /\ result # Null
    /\ Pending # {}

\* C6: handleSearch on an input that is not empty after trimming sets
\* currentSearchRef to the trimmed input, result to null and status to
\* LOADING in one step, and calls quickTranslate with the trimmed input.
C6_AcceptedSubmit ==
    [][(HandleSearch /\ ~IsBlank(input))
          => /\ IsTrimOf(currentSearchRef', input)
             /\ result' = Null
             /\ status' = "LOADING"
             /\ calls' = Append(calls, calls'[Len(calls')])
             /\ calls'[Len(calls')].pc = "quickTranslate"
             /\ calls'[Len(calls')].currentTerm = currentSearchRef']_vars

\* " a " was submitted while an earlier query's complete result was on display
C6_Witness ==
    /\ last = "submit"
    /\ input = <<" ", "a", " ">>
    /\ currentSearchRef = <<"a">>
    /\ status = "LOADING"
    /\ result = Null
    /\ \E i \in 1..Len(calls) : calls[i].pc = "getSynonyms"

\* C7: when quickTranslate resolves for the active query q, the result is
\* exactly q with the translation and the transliteration returned, no
\* segments and empty example sentences; status becomes PARTIAL_SUCCESS and
\* analyzeText is called with q and the returned translation.
C7_Stage1Success ==
    [][\A i \in 1..Len(calls), basic \in BasicResults :
         (Stage1Resolve(i, basic) /\ currentSearchRef = calls[i].currentTerm)
            => /\ result' = Some([originalText |-> calls[i].currentTerm,
                                  translatedText |-> basic.translatedText,
                                  transliteration |-> basic.transliteration,
                                  segments |-> <<>>,
                                  exampleSentenceThai |-> "",
                                  exampleSentenceEnglish |-> ""])
               /\ status' = "PARTIAL_SUCCESS"
               /\ calls'[i].pc = "analyzeText"
               /\ calls'[i].analyzeArgs =
                    Some(<<calls[i].currentTerm, basic.translatedText>>)]_vars

\* Stage 1 of the active query resolved with an empty transliteration
C7_Witness ==
    /\ last = "resolve1"
    /\ status = "PARTIAL_SUCCESS"
    /\ result # Null
    /\ Get(result).translatedText = "T2"
    /\ Get(result).transliteration = ""
    /\ \E i \in 1..Len(calls) :
          calls[i].analyzeArgs = Some(<<currentSearchRef, "T2">>)

\* C8: when quickTranslate rejects for the active query (the call is the most
\* recent submission), status becomes ERROR, result is still null and the
\* call launches neither Stage 2 nor Stage 3.
C8_Stage1FailurePublishesNothing ==
    [][\A i \in 1..Len(calls) :
         (Stage1Reject(i) /\ i = Len(calls))
            => /\ status' = "ERROR"
               /\ result' = Null
               /\ ReturnedAfterStage1(calls'[i])]_vars

\* C9: when analyzeText resolves for the active query, the result carries the
\* segments and the two example sentences returned, together with the query
\* and the translation and transliteration of the call's Stage 1; status
\* becomes SUCCESS and getSynonymsForSegments is called with the segments.
C9_Stage2Success ==
    [][\A i \in 1..Len(calls), details \in DetailResults :
         (Stage2Resolve(i, details) /\ currentSearchRef = calls[i].currentTerm)
            => /\ result' # Null
               /\ Get(result').segments = details.segments
               /\ Get(result').exampleSentenceThai = details.exampleSentenceThai
               /\ Get(result').exampleSentenceEnglish =
                    details.exampleSentenceEnglish
               /\ Get(result').originalText = calls[i].currentTerm
               /\ Get(result').translatedText =
                    Get(calls[i].basic).translatedText
               /\ Get(result').transliteration =
                    Get(calls[i].basic).transliteration
               /\ status' = "SUCCESS"
               /\ IF details.segments = <<>>
                  THEN calls'[i].pc = "done"
                  ELSE /\ calls'[i].pc = "getSynonyms"
                       /\ calls'[i].synonymArgs = Some(details.segments)]_vars

\* Stage 2 of the active query resolved with segments and Stage 3 is running
C9_Witness ==
    /\ last = "resolve2"
    /\ status = "SUCCESS"
    /\ result # Null
    /\ Len(Get(result).segments) = 3
    /\ Get(result).exampleSentenceThai = "xt"
    /\ \E i \in 1..Len(calls) :
          /\ calls[i].pc = "getSynonyms"
          /\ calls[i].currentTerm = currentSearchRef
          /\ calls[i].synonymArgs = Some(Get(result).segments)

\* C10: when analyzeText rejects for the active query (the call is the most
\* recent submission), status is ERROR and the result is still there, with
\* the translation and transliteration of the call's Stage 1 and no segments.
C10_Stage2FailureKeepsPartialResult ==
    [][\A i \in 1..Len(calls) :
         (Stage2Reject(i) /\ i = Len(calls))
            => /\ status' = "ERROR"
               /\ result' # Null
               /\ Get(result').translatedText =
                    Get(calls[i].basic).translatedText
               /\ Get(result').transliteration =
                    Get(calls[i].basic).transliteration
               /\ Get(result').segments = <<>>]_vars

\* C11: a failure of Stage 3, of the active query or of a stale one, leaves
\* status as it was (so it is never the step into ERROR) and leaves the
\* published result, its segments included, as it was.
C11_Stage3FailureChangesNothing ==
    [][\A i \in 1..Len(calls) :
         (Stage3Caught(i) \/ Stage3Reject(i))
            => (status' = status /\ result' = result)]_vars

\* every segment whose text is the word of an entry of data carries that
\* entry's synonyms
CarriesSynonyms(segs, data) ==
    \A k \in 1..Len(segs), e \in 1..Len(data) :
        data[e].word = segs[k].thai
            => ("synonyms" \in DOMAIN segs[k] /\ segs[k].synonyms = data[e].synonyms)

\* C12: when Stage 3 succeeds for a call after which nothing was submitted
\* (its Stages 1 and 2 succeeded before), the result carries, on every segment
\* whose text is the word of an entry of the answer, that entry's synonyms,
\* and status is SUCCESS.
C12_EnrichedResult ==
    [][\A i \in 1..Len(calls), data \in SynonymData :
         (Stage3Resolve(i, data) /\ i = Len(calls))
            => /\ result' # Null
               /\ CarriesSynonyms(Get(result').segments, data)
               /\ Len(Get(result').segments) = Len(Get(calls[i].synonymArgs))
               /\ status' = "SUCCESS"]_vars

\* no entry of data has the text of the segment as its word
Unmatched(segment, data) ==
    \A e \in 1..Len(data) : data[e].word # segment.thai

\* C13 (as claimed): after a successful Stage-3 merge every segment whose text
\* is not a word of the answer has no synonyms field.
C13_UnmatchedSynonymsAbsent ==
    [][\A i \in 1..Len(calls), data \in SynonymData :
         (Stage3Resolve(i, data) /\ ~IsStale(i) /\ result' # Null)
            => \A k \in 1..Len(Get(result').segments) :
                  Unmatched(Get(result').segments[k], data)
                     => "synonyms" \notin DOMAIN Get(result').segments[k]]_vars

\* C13 (amended): after a successful Stage-3 merge every segment whose text is
\* not a word of the answer has a synonyms field that is the empty list.
C13_UnmatchedSynonymsEmpty ==
    [][\A i \in 1..Len(calls), data \in SynonymData :
         (Stage3Resolve(i, data) /\ ~IsStale(i) /\ result' # Null)
            => \A k \in 1..Len(Get(result').segments) :
                  Unmatched(Get(result').segments[k], data)
                     => /\ "synonyms" \in DOMAIN Get(result').segments[k]
                        /\ Get(result').segments[k].synonyms = <<>>]_vars

\* a merge has given the matched segments a list and the unmatched one []
C13_Witness ==
    /\ last = "resolve3"
    /\ result # Null
    /\ \E k, m \in 1..Len(Get(result).segments) :
          /\ Get(result).segments[k].thai = "m"
          /\ "synonyms" \in DOMAIN Get(result).segments[k]
          /\ Get(result).segments[k].synonyms = <<>>
          /\ "synonyms" \in DOMAIN Get(result).segments[m]
          /\ Get(result).segments[m].synonyms # <<>>

\* C14: after a successful Stage-3 merge, segments that have the same text,
\* a text the answer has an entry for, all carry the same synonym list.
C14_DuplicateTextsShareSynonyms ==
    [][\A i \in 1..Len(calls), data \in SynonymData :
         (Stage3Resolve(i, data) /\ ~IsStale(i) /\ result' # Null)
            => \A k, m \in 1..Len(Get(result').segments) :
                  (/\ Get(result').segments[k].thai = Get(result').segments[m].thai
                   /\ ~Unmatched(Get(result').segments[k], data))
                     => /\ "synonyms" \in DOMAIN Get(result').segments[k]
                        /\ "synonyms" \in DOMAIN Get(result').segments[m]
                        /\ Get(result').segments[k].synonyms
                              = Get(result').segments[m].synonyms]_vars

\* two segments at different positions, same text, same non-empty list
C14_Witness ==
    /\ last = "resolve3"
    /\ result # Null
    /\ \E k, m \in 1..Len(Get(result).segments) :
          /\ k # m
          /\ Get(result).segments[k].thai = Get(result).segments[m].thai
          /\ "synonyms" \in DOMAIN Get(result).segments[k]
          /\ "synonyms" \in DOMAIN Get(result).segments[m]
          /\ Get(result).segments[k].synonyms = <<"s1", "s2">>
          /\ Get(result).segments[m].synonyms = <<"s1", "s2">>

\* C15: a call of handleSearch starts to wait for analyzeText only in the step
\* in which its own quickTranslate resolved, and starts to wait for
\* getSynonymsForSegments only in the step in which its own analyzeText
\* resolved; a rejected stage starts nothing.
C15_StagesInOrder ==
    [][\A i \in 1..Len(calls) :
         /\ (calls'[i].pc = "analyzeText" /\ calls[i].pc # "analyzeText")
               => /\ calls[i].pc = "quickTranslate"
                  /\ \E basic \in BasicResults :
                        /\ Stage1Resolve(i, basic)
                        /\ calls'[i].basic = Some(basic)
         /\ (calls'[i].pc = "getSynonyms" /\ calls[i].pc # "getSynonyms")
               => /\ calls[i].pc = "analyzeText"
                  /\ calls[i].basic # Null
                  /\ \E details \in DetailResults :
                        /\ Stage2Resolve(i, details)
                        /\ calls'[i].synonymArgs = Some(details.segments)]_vars

\* one call has reached Stage 3 and a later one Stage 2
C15_Witness ==
    \E i, j \in 1..Len(calls) :
        /\ i < j
        /\ calls[i].pc = "getSynonyms"
        /\ calls[j].pc = "analyzeText"

\* C16 (as claimed): result is non-null only when status is PARTIAL_SUCCESS
\* or SUCCESS, never in IDLE, LOADING or ERROR.
C16_ResultOnlyInSuccessStates ==
    result # Null => status \in {"PARTIAL_SUCCESS", "SUCCESS"}

\* C16 (amended): result is non-null only when status is PARTIAL_SUCCESS,
\* SUCCESS or ERROR, never in IDLE or LOADING.
C16_ResultNeverInIdleOrLoading ==
    result # Null => status \in {"PARTIAL_SUCCESS", "SUCCESS", "ERROR"}

\* the partial result of the only query is still published after its Stage 2
\* failed
C16_Witness ==
    /\ status = "ERROR"
    /\ result # Null
    /\ Len(calls) = 1
    /\ Get(result).originalText = calls[1].currentTerm
    /\ Get(result).segments = <<>>

\* C17 (as claimed): every step that moves status into ERROR starts from
\* LOADING, never from PARTIAL_SUCCESS, SUCCESS or IDLE.
C17_ErrorOnlyFromLoading ==
    [][(status' = "ERROR" /\ status # "ERROR") => status = "LOADING"]_vars

\* C17 (amended): every step that moves status into ERROR is the rejection of
\* quickTranslate or of analyzeText of some call, and starts from LOADING,
\* PARTIAL_SUCCESS or SUCCESS, never from IDLE; a failure of Stage 3 is never
\* such a step.
C17_ErrorOnlyFromStage1Or2Failure ==
    [][(status' = "ERROR" /\ status # "ERROR")
          => /\ status \in {"LOADING", "PARTIAL_SUCCESS", "SUCCESS"}
             /\ \E i \in 1..Len(calls) : Stage1Reject(i) \/ Stage2Reject(i)
             /\ \A i \in 1..Len(calls) : ~Stage3Reject(i) /\ ~Stage3Caught(i)]_vars

\* the only query went LOADING, PARTIAL_SUCCESS, ERROR and was never stale
C17_Witness ==
    /\ last = "reject2"
    /\ status = "ERROR"
    /\ Len(calls) = 1
    /\ currentSearchRef = calls[1].currentTerm

\* C18: when Stage 3 of a call returns segments (merged, or unchanged after a
\* caught failure) and the token is no longer the text of that call, result
\* and status stay as they are.
C18_StaleStage3SuccessIsDropped ==
    [][\A i \in 1..Len(calls) :
         ((Stage3Caught(i) \/ \E data \in SynonymData : Stage3Resolve(i, data))
            /\ IsStale(i))
            => (result' = result /\ status' = status)]_vars

\* Stage 3 of an earlier query returned while the result of another, active
\* query was published, and that result is still there
C18_Witness ==
    /\ last = "stale3"
    /\ result # Null
    /\ Get(result).originalText = currentSearchRef
    /\ \E i \in 1..Len(calls) :
          calls[i].pc = "done" /\ calls[i].currentTerm # currentSearchRef

\* C19: whenever result is non-null, its originalText is the token
\* (currentSearchRef.current), the text of the most recently accepted query.
C19_ResultBelongsToActiveToken ==
    result # Null => Get(result).originalText = currentSearchRef

\* the result of the active query is complete while an earlier query with
\* another text is still waiting for its Stage 2
C19_Witness ==
    /\ result # Null
    /\ status = "SUCCESS"
    /\ Get(result).originalText = currentSearchRef
    /\ \E i \in 1..Len(calls) :
          /\ calls[i].pc = "analyzeText"
          /\ calls[i].currentTerm # currentSearchRef

\* C20: once status is SUCCESS or ERROR it changes only in an accepted
\* submission, to LOADING; the completion of a stage, of any call, never moves
\* status out of SUCCESS or ERROR.
C20_TerminalUntilResubmitted ==
    [][(status \in {"SUCCESS", "ERROR"} /\ status' # status)
          => (HandleSearch /\ status' = "LOADING")]_vars

\* C21: whenever status is PARTIAL_SUCCESS the result is there and holds only
\* what Stage 1 gives: no segments and two empty example sentences.
C21_PartialResultIsStage1Only ==
    status = "PARTIAL_SUCCESS"
        => /\ result # Null
           /\ Get(result).segments = <<>>
           /\ Get(result).exampleSentenceThai = ""
           /\ Get(result).exampleSentenceEnglish = ""

\* C22: the token (currentSearchRef.current) changes only in an accepted
\* submission, where it becomes the trimmed input; the completion of a stage,
\* successful, failed or stale, leaves it as it is.
C22_TokenWrittenOnlyBySubmit ==
    [][/\ currentSearchRef' # currentSearchRef
          => /\ HandleSearch
             /\ Trim(input) # <<>>
             /\ currentSearchRef' = Trim(input)
       /\ \A i \in 1..Len(calls) :
             (\/ \E basic \in BasicResults : Stage1Resolve(i, basic)
              \/ Stage1Reject(i)
              \/ \E details \in DetailResults : Stage2Resolve(i, details)
              \/ Stage2Reject(i)
              \/ \E data \in SynonymData : Stage3Resolve(i, data)
              \/ Stage3Caught(i)
              \/ Stage3Reject(i))
                => currentSearchRef' = currentSearchRef]_vars

\* a stage of an earlier query completed after the token had moved on to
\* another text, and the token is still that other text
C22_Witness ==
    /\ last \in {"stale1", "stale2", "stale3", "reject1", "reject2", "reject3"}
    /\ Len(calls) >= 2
    /\ currentSearchRef = calls[Len(calls)].currentTerm
    /\ \E i \in 1..Len(calls) :
          calls[i].pc = "done" /\ calls[i].currentTerm # currentSearchRef
    /\ calls[Len(calls)].pc # "done"

\* how far a call of handleSearch has come
StageRank(pc) ==
    CASE pc = "quickTranslate" -> 1
      [] pc = "analyzeText" -> 2
      [] pc = "getSynonyms" -> 3
      [] pc = "done" -> 4

\* C23: a call of handleSearch only moves forward through its stages, so each
\* stage is started at most once per accepted submission; the step in which
\* one of its stages fails is its last; a call that has returned starts
\* nothing more; and a new call is started only by an accepted submission.
C23_EachStageAtMostOnce ==
    [][/\ \A i \in 1..Len(calls) :
            /\ Len(calls') >= i
            /\ calls'[i].currentTerm = calls[i].currentTerm
            /\ StageRank(calls'[i].pc) >= StageRank(calls[i].pc)
            /\ (Stage1Reject(i) \/ Stage2Reject(i) \/ Stage3Caught(i) \/ Stage3Reject(i))
                  => calls'[i].pc = "done"
            /\ calls[i].pc = "done" => calls'[i] = calls[i]
       /\ Len(calls') # Len(calls)
            => /\ HandleSearch
               /\ Trim(input) # <<>>
               /\ Len(calls') = Len(calls) + 1
               /\ calls'[Len(calls')].pc = "quickTranslate"]_vars

\* the only call failed at Stage 1 and has returned without a result
C23_Witness ==
    /\ last = "reject1"
    /\ Len(calls) = 1
    /\ calls[1].pc = "done"
    /\ status = "ERROR"
    /\ result = Null

\* the fetch failed in one of the ways the claim lists: network error, non-OK
\* status, body that is no JSON
FastFailedAsListed(response) ==
    \/ response.kind = "networkError"
    \/ ~response.ok
    \/ ~response.body.json

\* the fast source answered OK with JSON whose first element is a list of
\* parts, none of them null
FastSucceeded(response) ==
    /\ response.kind = "response"
    /\ response.ok
    /\ response.body.json
    /\ response.body.parts # Null
    /\ \A n \in 1..Len(Get(response.body.parts)) : Get(response.body.parts)[n] # Null

\* the fallback answered with nothing or with a JSON object
FallbackSucceeded(response) == response.kind \in {"empty", "object"}

\* a call of quickTranslate has settled
QuickTranslateDone == fetcher.fn = "quickTranslate" /\ fetcher.pc = "done"

\* C24: once quickTranslate has settled: it rejected only if the fast source
\* did not succeed and the fallback was called and failed; if the fast source
\* failed by a network error, a non-OK status or an unparsable body, the
\* fallback was called, and if that succeeded quickTranslate resolved with the
\* fallback's translation and transliteration; and if the fast source
\* succeeded, quickTranslate resolved and the fallback was never called.
C24_FallbackOnlyWhenFastFails ==
    QuickTranslateDone
        => LET fast == Get(fetcher.fast)
               outcome == Get(fetcher.outcome)
               fallbackCalled ==
                   \E n \in 1..Len(requests) :
                       requests[n].to = "gemini" /\ requests[n].task = "translate"
           IN  /\ outcome.kind = "rejected"
                     => /\ ~FastSucceeded(fast)
                        /\ fallbackCalled
                        /\ fetcher.fallback # Null
                        /\ ~FallbackSucceeded(Get(fetcher.fallback))
               /\ FastFailedAsListed(fast) => ~FastSucceeded(fast)
               /\ ~FastSucceeded(fast)
                     => /\ fallbackCalled
                        /\ fetcher.fallback # Null
                        /\ FallbackSucceeded(Get(fetcher.fallback))
                              => /\ outcome.kind = "resolved"
                                 /\ Get(fetcher.fallback).kind = "object"
                                       => /\ Field(Get(fetcher.fallback).parsed, "translatedText")
                                                \in {"", outcome.value.translatedText}
                                          /\ outcome.value.transliteration
                                                = Field(Get(fetcher.fallback).parsed,
                                                        "transliteration")
               /\ FastSucceeded(fast)
                     => /\ outcome.kind = "resolved"
                        /\ ~fallbackCalled
                        /\ fetcher.fallback = Null
                        /\ requests = << TranslateRequest(fetcher.text) >>

\* the fast source answered with a non-OK status and a well-formed body, the
\* fallback answered, and quickTranslate resolved with the fallback's values
C24_Witness ==
    /\ QuickTranslateDone
    /\ Get(fetcher.fast).kind = "response"
    /\ ~Get(fetcher.fast).ok
    /\ Get(fetcher.fast).body.json
    /\ Get(fetcher.fast).body.parts = Some(<< Some(<<"T1", "a", "r1">>) >>)
    /\ Len(requests) = 2
    /\ Get(fetcher.outcome) =
          Resolved([translatedText |-> "F1", transliteration |-> "f1"])

\* C25: the request of getSynonymsForSegments names the texts of the first 8
\* segments it was given (of all of them when there are fewer), in their
\* order, and nothing else; no segment after the 8th is named, and a call
\* sends at most one request.
C25_RequestNamesFirstEight ==
    fetcher.fn = "getSynonymsForSegments"
        => /\ Len(requests) <= 1
           /\ \A r \in 1..Len(requests) :
                 /\ requests[r].task = "synonyms"
                 /\ Len(requests[r].words) <= 8
                 /\ Len(requests[r].words)
                       = (IF Len(fetcher.segments) <= 8 THEN Len(fetcher.segments) ELSE 8)
                 /\ \A n \in 1..Len(requests[r].words) :
                       requests[r].words[n] = fetcher.segments[n].thai
                 /\ \A n \in 9..Len(fetcher.segments) :
                       (\A e \in 1..8 : fetcher.segments[e].thai # fetcher.segments[n].thai)
                          => \A w \in 1..Len(requests[r].words) :
                                requests[r].words[w] # fetcher.segments[n].thai

\* a list of more than 8 segments was given, 8 words were asked about and the
\* answer has been merged
C25_Witness ==
    /\ fetcher.fn = "getSynonymsForSegments"
    /\ fetcher.pc = "done"
    /\ Len(fetcher.segments) > 8
    /\ Len(requests) = 1
    /\ Len(requests[1].words) = 8
    /\ fetcher.answer # Null
    /\ Get(fetcher.answer).kind = "array"

\* C26: when Stage 3 of a call that is not stale succeeds and a result is
\* published, the segments of the new result are the segments Stage 2 of that
\* call returned, one for one and in the same order, with text,
\* transliteration, gloss and part of speech as they were and no field added
\* but synonyms; every other field of the result is as before the step.
C26_MergeChangesOnlySynonyms ==
    [][\A i \in 1..Len(calls), data \in SynonymData :
         (Stage3Resolve(i, data) /\ ~IsStale(i) /\ result # Null)
            => /\ result' # Null
               /\ Len(Get(result').segments) = Len(Get(calls[i].synonymArgs))
               /\ \A k \in 1..Len(Get(result').segments) :
                     /\ DOMAIN Get(result').segments[k]
                           = DOMAIN Get(calls[i].synonymArgs)[k] \cup {"synonyms"}
                     /\ \A f \in {"thai", "transliteration", "english", "partOfSpeech"} :
                           Get(result').segments[k][f] = Get(calls[i].synonymArgs)[k][f]
               /\ \A f \in {"originalText", "translatedText", "transliteration",
                            "exampleSentenceThai", "exampleSentenceEnglish"} :
                     Get(result')[f] = Get(result)[f]]_vars

\* a merged result that still has its example sentences and the three
\* segments in the order k, m, k
C26_Witness ==
    /\ last = "resolve3"
    /\ result # Null
    /\ Get(result).exampleSentenceThai = "xt"
    /\ Get(result).exampleSentenceEnglish = "xe"
    /\ Len(Get(result).segments) = 3
    /\ Get(result).segments[1].thai = "k"
    /\ Get(result).segments[2].thai = "m"
    /\ Get(result).segments[3].thai = "k"
    /\ "synonyms" \in DOMAIN Get(result).segments[1]
    /\ Get(result).segments[1].synonyms = <<"s1", "s2">>
    /\ Get(result).segments[1].english = "en"

\* C27: whenever status is IDLE or LOADING the result is null, and whenever
\* status is PARTIAL_SUCCESS or SUCCESS the result is not null.
C27_ResultMatchesStatus ==
    /\ status \in {"IDLE", "LOADING"} => result = Null
    /\ status \in {"PARTIAL_SUCCESS", "SUCCESS"} => result # Null

\* Stage 3 of an earlier call passed the token test while the latest call was
\* still LOADING, and no result appeared
C27_Witness ==
    /\ last = "resolve3"
    /\ status = "LOADING"
    /\ result = Null

\* C28: the step in which a call finds itself stale after Stage 1 or after
\* Stage 2 is the return of that call: it waits for no further stage, no
\* request of a further stage is prepared, and a call that has returned never
\* waits for a stage again.
C28_StaleCallLaunchesNothing ==
    [][\A i \in 1..Len(calls) :
         /\ ((\E basic \in BasicResults : Stage1Resolve(i, basic)) /\ IsStale(i))
               => /\ calls'[i].pc = "done"
                  /\ calls'[i].analyzeArgs = Null
                  /\ calls'[i].synonymArgs = Null
         /\ ((\E details \in DetailResults : Stage2Resolve(i, details)) /\ IsStale(i))
               => /\ calls'[i].pc = "done"
                  /\ calls'[i].synonymArgs = Null
         /\ calls[i].pc = "done" => calls'[i].pc = "done"]_vars

\* two calls for another text have returned, the last step was the return of
\* a call that found itself stale, and the third, active call is still running
C28_Witness ==
    /\ Len(calls) = 3
    /\ last \in {"stale1", "stale2"}
    /\ calls[1].pc = "done" /\ calls[1].currentTerm # currentSearchRef
    /\ calls[2].pc = "done" /\ calls[2].currentTerm # currentSearchRef
    /\ calls[3].pc # "done" /\ calls[3].currentTerm = currentSearchRef

\* C29: when every fetcher call settles in the end and submissions come to an
\* end, then, unless nothing was ever submitted, from some point on every call
\* of handleSearch has returned and status is SUCCESS or ERROR for good; and
\* status is LOADING or PARTIAL_SUCCESS only while a call for the text of the
\* token is still waiting for a fetcher.
C29_SettlesInSuccessOrError ==
    /\ <>[](calls # <<>> => (Pending = {} /\ status \in {"SUCCESS", "ERROR"}))
    /\ [](status \in {"LOADING", "PARTIAL_SUCCESS"}
             => \E i \in Pending : calls[i].currentTerm = currentSearchRef)

\* three submissions have been made, every call has returned and the last of
\* them ended in SUCCESS
C29_Witness ==
    /\ Len(calls) = 3
    /\ Pending = {}
    /\ status = "SUCCESS"
    /\ result # Null
    /\ last \in {"resolve2", "resolve3", "stale3", "reject3"}

\* C30: at any time at most three calls of handleSearch are waiting for a
\* fetcher, however many submissions were made, and one token, one status and
\* one result are held.
C30_AtMostThreeOutstanding ==
    /\ Cardinality(Pending) <= 3
    /\ currentSearchRef \in {Trim(v) : v \in Inputs \cup {<<>>}}
    /\ status \in LoadingState

\* the folder the card names exists, or the card is in General
InExistingFolder(card) ==
    card.folderId = General \/ card.folderId \in {Some(i) : i \in Ids(folders)}

\* C31: after any sequence of saves from the Translate tab (into its selected
\* target folder), card moves, folder creations and folder deletions, every
\* card's folderId is absent (General) or the id of a folder that exists.
C31_FolderIdsExist ==
    \A k \in 1..Len(vocabulary) : InExistingFolder(vocabulary[k])

\* what deleteFolder(id) is claimed to leave behind, from the state before
\* (vocab, fs) to the state after (vocab2, fs2)
FolderRemoved(id, fs, fs2) ==
    /\ \A j \in 1..Len(fs2) : fs2[j].id # id
    /\ Len(fs2) = Cardinality({k \in 1..Len(fs) : fs[k].id # id})
    /\ \A k \in 1..Len(fs) : fs[k].id # id => \E j \in 1..Len(fs2) : fs2[j] = fs[k]

CardsMovedToGeneral(id, vocab, vocab2) ==
    /\ Len(vocab2) = Len(vocab)
    /\ \A k \in 1..Len(vocab) :
          IF vocab[k].folderId = Some(id)
          THEN /\ vocab2[k].folderId = General
               /\ \A f \in DOMAIN vocab[k] \ {"folderId"} : vocab2[k][f] = vocab[k][f]
          ELSE vocab2[k] = vocab[k]

\* C32: deleteFolder(id) removes the folder with that id and no other, and
\* moves its cards to General: afterwards no card names the folder, every card
\* that did has no folderId, no card is removed, and every other card is as it
\* was.
C32_DeleteFolderMovesCards ==
    [][\A id \in Ids(folders) :
          DeleteFolder(id) =>
             /\ FolderRemoved(id, folders, folders')
             /\ CardsMovedToGeneral(id, vocabulary, vocabulary')
             /\ \A k \in 1..Len(vocabulary') : vocabulary'[k].folderId # Some(id)]_vars

\* a folder with a card in it was deleted while another folder held a card
C32_Witness ==
    /\ lastOp.op = "deleteFolder"
    /\ lastOp.cards # {}
    /\ \E k \in 1..Len(vocabulary) :
          /\ vocabulary[k].id \in lastOp.cards
          /\ vocabulary[k].folderId = General
    /\ \E k \in 1..Len(vocabulary) :
          /\ vocabulary[k].folderId # General
          /\ vocabulary[k].folderId \in {Some(i) : i \in Ids(folders)}

\* no two items of the list have the same id
DistinctIds(list) ==
    \A j, k \in 1..Len(list) : list[j].id = list[k].id => j = k

\* every item of the list before is in the list after, at its place
KeptIn(before, after) ==
    /\ Len(before) <= Len(after)
    /\ \A k \in 1..Len(before) : after[k] = before[k]

\* C33: an import adds an imported card or folder only if its id does not
\* exist yet, so card ids and folder ids that were pairwise distinct before the
\* import are pairwise distinct after it, whatever the imported lists are, and
\* no existing card or folder is changed or removed by it.
C33_ImportKeepsIdsDistinct ==
    [][ReaderOnload =>
          /\ DistinctIds(vocabulary) => DistinctIds(vocabulary')
          /\ DistinctIds(folders) => DistinctIds(folders')
          /\ KeptIn(vocabulary, vocabulary')
          /\ KeptIn(folders, folders')]_vars

\* a question is on screen and no answer to it has been given yet
WaitingForAnswer == step = "PLAYING" /\ currentQuestion # Null /\ timer = Null

\* C34: whenever a question is on screen waiting for its first answer, after
\* startQuiz or after the advance to the next question, feedback is null, so
\* that an answer is accepted; in every session, also one started after an
\* earlier session ended because too few cards remained.
C34_FeedbackNullWhenWaiting == WaitingForAnswer => feedback = Null

\* C35: within a session no card is chosen as the correct answer a second time
\* while some card of the active vocabulary has not been used yet, and the
\* history of used cards is empty at the start of every session (after
\* startQuiz it holds the card of the first question and nothing else).
C35_NoRepeatWhileUnused ==
    [][/\ TimerFires /\ step' = "PLAYING" /\ Get(currentQuestion').card.id \in usedCardIds
          => Ids(GetActiveVocabulary(vocabulary, selectedFolderIds)) \subseteq usedCardIds
       /\ StartQuiz /\ step' = "PLAYING"
          => usedCardIds' = {Get(currentQuestion').card.id}]_vars

====
